---- MODULE Spec2Model ----
(***************************************************************************)
(* Model of icons/generate_icons.py: the rasterizer draw_icon, the PNG     *)
(* encoder png_bytes and the driver main.                                  *)
(*                                                                         *)
(* Arithmetic.  The source computes in binary floating point with decimal  *)
(* constants (0.22, 0.13, 0.115, 0.56, 0.65, 0.28, 0.8).  The model takes  *)
(* these constants as exact rationals and computes with integers: lengths  *)
(* are held in thousandths of a pixel (suffix K).  round() is Python's     *)
(* round-half-to-even.  The result is the source's except where the exact  *)
(* value of a colour channel is k + 1/2 and the float error decides the    *)
(* direction: there the channel may differ by one.                         *)
(***************************************************************************)
EXTENDS Integers, Sequences, FiniteSets, TLC

\* ------------------------------------------------------------------------
\* Program constants
\* ------------------------------------------------------------------------

\* main: sizes = [16, 32, 48, 128]
sizes == <<16, 32, 48, 128>>

\* draw_icon: bg_r, bg_g, bg_b and fg_r, fg_g, fg_b
bg_rgb == <<26, 115, 232>>
fg_rgb == <<255, 255, 255>>

\* ------------------------------------------------------------------------
\* Integer helpers standing for Python's min, max, round and math.hypot
\* ------------------------------------------------------------------------

\* (each is a function applied to its arguments, so that an argument is
\* computed once however often the body names it)
Min2(a, b) ==
    LET least[p \in Int \X Int] == IF p[1] <= p[2] THEN p[1] ELSE p[2]
    IN  least[<<a, b>>]

Max2(a, b) ==
    LET most[p \in Int \X Int] == IF p[1] >= p[2] THEN p[1] ELSE p[2]
    IN  most[<<a, b>>]

Clamp(v, lo, hi) == Min2(Max2(v, lo), hi)

\* round(num / den) for den > 0, num >= 0: round half to even
RoundHalfEven(num, den) ==
    LET even[p \in Int \X Int] ==
            LET q == (2 * p[1] + p[2]) \div (2 * p[2])
                r == (2 * p[1] + p[2]) % (2 * p[2])
            IN  IF r = 0 /\ q % 2 = 1 THEN q - 1 ELSE q
    IN  even[<<num, den>>]

\* floor of the square root of n, by bisection on [lo, hi)
RECURSIVE SqrtBisect(_, _, _)
SqrtBisect(n, lo, hi) ==
    IF hi - lo <= 1 THEN lo
    ELSE LET mid == (lo + hi) \div 2
         IN  IF mid * mid <= n THEN SqrtBisect(n, mid, hi)
                               ELSE SqrtBisect(n, lo, mid)

ISqrt(n) == SqrtBisect(n, 0, 46341)

\* ceiling of 255 * sqrt(q), without leaving 32 bits
Ceil255Sqrt(q) ==
    LET up[s \in Nat] ==
            255 * s + Cardinality({k \in 0..254 :
                          255 * (q - s * s) > 2 * s * k + (k * k) \div 255})
    IN  up[ISqrt(q)]

\* ------------------------------------------------------------------------
\* draw_icon: one pixel
\* ------------------------------------------------------------------------

\* corner_radius = size * 0.22, in thousandths
corner_radiusK(size) == 220 * size

\* cx, cy = x + 0.5, y + 0.5
centreK(x) == 1000 * x + 500

\* rx = max(corner_radius - cx, cx - (size - corner_radius), 0)
cornerExcessK(size, c) ==
    Max2(Max2(corner_radiusK(size) - c,
              c - (1000 * size - corner_radiusK(size))), 0)

\* rx * rx + ry * ry, the square of math.hypot(rx, ry)
hypotSqK(size, x, y) ==
    LET rx == cornerExcessK(size, centreK(x))
        ry == cornerExcessK(size, centreK(y))
    IN  rx * rx + ry * ry

\* variant: the band is shifted outwards, 1.5 - dist_corner
halfK_wide == 1000 + 500

\* the 0.5 of bg_alpha = max(0.0, min(1.0, 0.5 - dist_corner)), in thousandths
halfK == 500

\* bg_alpha <= 0, i.e. hypot(rx, ry) >= corner_radius + 0.5
bgAlphaZero(size, x, y) ==
    hypotSqK(size, x, y) >=
        (corner_radiusK(size) + halfK) * (corner_radiusK(size) + halfK)

\* bg_alpha = 1.0, i.e. hypot(rx, ry) <= corner_radius + 0.5 - 1
bgAlphaOne(size, x, y) ==
    /\ corner_radiusK(size) + halfK - 1000 >= 0
    /\ hypotSqK(size, x, y) <=
          (corner_radiusK(size) + halfK - 1000)
             * (corner_radiusK(size) + halfK - 1000)

\* a = round(bg_alpha * 255)
alphaChannel(size, x, y) ==
    IF bgAlphaZero(size, x, y) THEN 0
    ELSE IF bgAlphaOne(size, x, y) THEN 255
    ELSE LET m == 255 * (halfK + corner_radiusK(size)) + 500
             c == Ceil255Sqrt(hypotSqK(size, x, y))
         IN  Clamp((m - c) \div 1000, 0, 255)

\* bar_y[i] = size * 0.28 + i * (lw + gap), lw = size * 0.13, gap = size * 0.115
bar_yK(size, i) == 280 * size + i * (130 * size + 115 * size)

\* bar_w = [w, w, w * 0.65], w = size * 0.56
bar_wK(size, i) == IF i = 2 THEN 364 * size ELSE 560 * size

\* left = size * 0.22
leftK(size) == 220 * size

\* min(max(dy / feather + 0.5, 0.0), 1.0) in 160ths, feather = 0.8
rampY(size, i, y) ==
    LET cy == centreK(y)
        by == bar_yK(size, i)
        dy == Min2(cy - by, by + 130 * size - cy)
    IN  Clamp(dy \div 5 + 80, 0, 160)

\* min(max(dx / feather + 0.5, 0.0), 1.0) in 400ths
rampX(size, i, x) ==
    LET cx == centreK(x)
        dx == Min2(cx - leftK(size), leftK(size) + bar_wK(size, i) - cx)
    IN  Clamp(dx \div 2 + 200, 0, 400)

\* aa for bar i, in 64000ths
barAlpha(size, i, x, y) == rampY(size, i, y) * rampX(size, i, x)

\* variant: only the last bar counts (fg_alpha = aa instead of the maximum)
fg_alpha_last(size, x, y) == barAlpha(size, 2, x, y)

\* fg_alpha = max over the three bars, in 64000ths
fg_alpha(size, x, y) ==
    Max2(Max2(Max2(0, barAlpha(size, 0, x, y)), barAlpha(size, 1, x, y)),
         barAlpha(size, 2, x, y))

\* round(lerp(a, b, t)) with t = f / 64000 and a <= b
lerpRound(a, b, f) == RoundHalfEven(a * 64000 + (b - a) * f, 64000)

\* the tuple appended for pixel (x, y)
drawPixel(size, x, y) ==
    IF bgAlphaZero(size, x, y) THEN <<0, 0, 0, 0>>
    ELSE LET blend[f \in Nat] ==
                 <<lerpRound(bg_rgb[1], fg_rgb[1], f),
                   lerpRound(bg_rgb[2], fg_rgb[2], f),
                   lerpRound(bg_rgb[3], fg_rgb[3], f),
                   alphaChannel(size, x, y)>>
         IN  blend[fg_alpha(size, x, y)]

\* variant: the inner loop stops one column short
drawRow_short(sz, py) == [c \in 1..(sz - 1) |-> drawPixel(sz, c - 1, py)]

\* the pixels one turn of the outer loop appends: for x in range(size)
drawRow(sz, py) == [c \in 1..sz |-> drawPixel(sz, c - 1, py)]

\* the list draw_icon(size) returns: the rows of y = 0..size-1 on end
draw_icon(sz) ==
    LET rows[a \in Int \X Int] ==
            IF a[1] > a[2] THEN <<>>
            ELSE IF a[1] = a[2] THEN <<>> \o drawRow(sz, a[1])
            ELSE rows[<<a[1], (a[1] + a[2]) \div 2>>]
                    \o rows[<<(a[1] + a[2]) \div 2 + 1, a[2]>>]
    IN  rows[<<0, sz - 1>>]

\* ------------------------------------------------------------------------
\* Bytes, struct.pack and zlib.crc32
\* ------------------------------------------------------------------------

\* struct.pack('>I', n): four bytes, big-endian
packI(n) == <<(n \div 16777216) % 256, (n \div 65536) % 256,
              (n \div 256) % 256, n % 256>>

\* variant: bit depth and colour type change places
packIHDR_swapped(width, height) ==
    packI(width) \o packI(height) \o <<6, 8, 0, 0, 0>>

\* struct.pack('>IIBBBBB', width, height, 8, 6, 0, 0, 0)
packIHDR(width, height) == packI(width) \o packI(height) \o <<8, 6, 0, 0, 0>>

\* the value a packI result stands for (defined below 2^31)
unpackI(b) == ((b[1] * 256 + b[2]) * 256 + b[3]) * 256 + b[4]

\* bitwise exclusive or of two bytes, bit by bit
XorBits(a, b) ==
      ((a + b) % 2)
    + 2 * (((a \div 2) + (b \div 2)) % 2)
    + 4 * (((a \div 4) + (b \div 4)) % 2)
    + 8 * (((a \div 8) + (b \div 8)) % 2)
    + 16 * (((a \div 16) + (b \div 16)) % 2)
    + 32 * (((a \div 32) + (b \div 32)) % 2)
    + 64 * (((a \div 64) + (b \div 64)) % 2)
    + 128 * (((a \div 128) + (b \div 128)) % 2)

xorTable ==
    <<>> \o [a \in 1..256 |-> <<>> \o [b \in 1..256 |-> XorBits(a - 1, b - 1)]]

Xor8(a, b) == xorTable[a + 1][b + 1]

\* a 32-bit word is held as four bytes, most significant first
Xor32(u, v) ==
    LET x[p \in Seq(Nat) \X Seq(Nat)] ==
            <<Xor8(p[1][1], p[2][1]), Xor8(p[1][2], p[2][2]),
              Xor8(p[1][3], p[2][3]), Xor8(p[1][4], p[2][4])>>
    IN  x[<<u, v>>]

Shr1(u) == <<u[1] \div 2,
             (u[1] % 2) * 128 + u[2] \div 2,
             (u[2] % 2) * 128 + u[3] \div 2,
             (u[3] % 2) * 128 + u[4] \div 2>>

Shr8(u) == <<0, u[1], u[2], u[3]>>

\* the reflected IEEE 802.3 polynomial 0xEDB88320
crcPoly == <<237, 184, 131, 32>>

\* one turn of the bitwise CRC: shift right, and fold the polynomial in if
\* the bit shifted out was set
crcShift(u) == IF u[4] % 2 = 1 THEN Xor32(crcPoly, Shr1(u)) ELSE Shr1(u)

\* the table of the byte-wise CRC: eight turns from each byte value
crcTable ==
    LET turn[a \in Seq(Nat) \X Nat] ==
            IF a[2] = 0 THEN a[1] ELSE turn[<<crcShift(a[1]), a[2] - 1>>]
    IN  <<>> \o [n \in 1..256 |-> turn[<<<<0, 0, 0, n - 1>>, 8>>]]

crcUpdate(u, b) == Xor32(crcTable[Xor8(u[4], b) + 1], Shr8(u))

\* the CRC register after bytes s[lo..hi], starting from u.  The range is
\* halved rather than walked, and the step is a function so that its
\* argument is a value before the right half is entered.
crcRange(s, lo, hi, u) ==
    LET go[a \in Nat \X Nat \X Seq(Nat)] ==
            IF a[1] > a[2] THEN a[3]
            ELSE IF a[1] = a[2] THEN crcUpdate(a[3], s[a[1]])
            ELSE go[<<(a[1] + a[2]) \div 2 + 1, a[2],
                      go[<<a[1], (a[1] + a[2]) \div 2, a[3]>>]>>]
    IN  go[<<lo, hi, u>>]

\* struct.pack('>I', zlib.crc32(c) & 0xFFFFFFFF)
crc32(c) ==
    LET fin[r \in Seq(Nat)] == Xor32(r, <<255, 255, 255, 255>>)
        reg[v \in Seq(Nat)] == fin[crcRange(v, 1, Len(v), <<255, 255, 255, 255>>)]
    IN  reg[c]

\* ------------------------------------------------------------------------
\* zlib.compress(raw, 9).  zlib is not part of the repository; the model is
\* the zlib container (header 78 DA, deflate blocks, Adler-32 of the input)
\* with the input carried in stored deflate blocks.  The bytes differ from
\* those the library's level-9 search emits; the stream decodes to the same
\* data under any inflate.
\* ------------------------------------------------------------------------

\* the Adler-32 pair <<a, b>> after bytes s[lo..hi], starting from ab
adlerRange(s, lo, hi, ab) ==
    LET go[a \in Nat \X Nat \X Seq(Nat)] ==
            IF a[1] > a[2] THEN a[3]
            ELSE IF a[1] = a[2]
                 THEN <<(a[3][1] + s[a[1]]) % 65521,
                        (a[3][2] + a[3][1] + s[a[1]]) % 65521>>
            ELSE go[<<(a[1] + a[2]) \div 2 + 1, a[2],
                      go[<<a[1], (a[1] + a[2]) \div 2, a[3]>>]>>]
    IN  go[<<lo, hi, ab>>]

adler32(s) ==
    LET fin[ab \in Seq(Nat)] ==
            <<ab[2] \div 256, ab[2] % 256, ab[1] \div 256, ab[1] % 256>>
        sum[v \in Seq(Nat)] == fin[adlerRange(v, 1, Len(v), <<1, 0>>)]
    IN  sum[s]

\* one stored deflate block: BFINAL/BTYPE byte, LEN, NLEN, data
storedBlock(d, final) ==
    <<IF final THEN 1 ELSE 0,
      Len(d) % 256, Len(d) \div 256,
      (65535 - Len(d)) % 256, (65535 - Len(d)) \div 256>> \o d

RECURSIVE storedBlocks(_)
storedBlocks(d) ==
    IF Len(d) <= 65535 THEN storedBlock(d, TRUE)
    ELSE storedBlock(SubSeq(d, 1, 65535), FALSE)
            \o storedBlocks(SubSeq(d, 65536, Len(d)))

zlib_compress(raw) == <<120, 218>> \o storedBlocks(raw) \o adler32(raw)

\* ------------------------------------------------------------------------
\* png_bytes
\* ------------------------------------------------------------------------

\* the ASCII codes of the chunk tags b'IHDR', b'IDAT', b'IEND'
tagIHDR == <<73, 72, 68, 82>>
tagIDAT == <<73, 68, 65, 84>>
tagIEND == <<73, 69, 78, 68>>

\* b'\x89PNG\r\n\x1a\n'
signature == <<137, 80, 78, 71, 13, 10, 26, 10>>

\* variant: the length field counts the tag as well
chunk_taglen(tag, data) ==
    LET frame[d \in Seq(Nat)] ==
            packI(Len(tag \o d)) \o tag \o d \o crc32(tag \o d)
    IN  frame[data]

\* chunk(tag, data); the payload is made a value before it is framed
chunk(tag, data) ==
    LET frame[d \in Seq(Nat)] == packI(Len(d)) \o tag \o d \o crc32(tag \o d)
    IN  frame[data]

\* variant: the channels go out as b, g, r, a
scanline_bgra(width, px, row) ==
    [k \in 1..(1 + 4 * width) |->
        IF k = 1 THEN 0
        ELSE px[row * width + ((k - 2) \div 4) + 1]
               [<<3, 2, 1, 4>>[((k - 2) % 4) + 1]]]

\* the bytes added to raw for row y: the filter byte, then r, g, b, a of
\* pixels[y * width + x] for x in range(width)
scanline(width, px, row) ==
    [k \in 1..(1 + 4 * width) |->
        IF k = 1 THEN 0
        ELSE px[row * width + ((k - 2) \div 4) + 1][((k - 2) % 4) + 1]]

\* variant: the last pixel of the buffer is out of reach
rowIndexError_last(width, px, row) ==
    \E c \in 0..(width - 1) : row * width + c >= Len(px) - 1

\* pixels[y * width + x] raises IndexError for some x in range(width)
rowIndexError(width, px, row) ==
    \E c \in 0..(width - 1) : row * width + c >= Len(px)

\* signature + ihdr + idat + iend, given the finished raw
pngFile(width, height, rawbytes) ==
    signature
        \o chunk(tagIHDR, packIHDR(width, height))
        \o chunk(tagIDAT, zlib_compress(rawbytes))
        \o chunk(tagIEND, <<>>)

\* raw when the loop over y has ended: the scanlines of rows 0..height-1
png_raw(width, height, px) ==
    LET rows[a \in Int \X Int] ==
            IF a[1] > a[2] THEN <<>>
            ELSE IF a[1] = a[2] THEN <<>> \o scanline(width, px, a[1])
            ELSE rows[<<a[1], (a[1] + a[2]) \div 2>>]
                    \o rows[<<(a[1] + a[2]) \div 2 + 1, a[2]>>]
    IN  rows[<<0, height - 1>>]

\* the loop over y ends in an IndexError
pngIndexError(width, height, px) ==
    \E r \in 0..(height - 1) : rowIndexError(width, px, r)

\* the bytes png_bytes(width, height, pixels) returns when the loop ends
png_bytes(width, height, px) ==
    LET enc[r \in Seq(Nat)] == pngFile(width, height, r)
    IN  enc[png_raw(width, height, px)]

\* ------------------------------------------------------------------------
\* Bounds of the stand-alone encoder runs
\* ------------------------------------------------------------------------

MaxW == 2
MaxH == 2
MaxLen == 4

\* a write that fails has put k / WriteParts of the bytes in the file
WriteParts == 20

\* the pixel values the stand-alone encoder runs draw buffers from
Colours == {<<0, 0, 0, 0>>, <<26, 115, 232, 255>>}

Buffers == UNION {[1..n -> Colours] : n \in 0..MaxLen}

\* the buffers of the two-call runs: one of each length
DetBuffers ==
    {[i \in 1..n |-> IF i % 2 = 1 THEN <<26, 115, 232, 255>> ELSE <<0, 0, 0, 0>>] :
        n \in 0..MaxLen}

\* ------------------------------------------------------------------------
\* State
\* ------------------------------------------------------------------------

VARIABLES
    mpc,      \* where control is: in main, in draw_icon or in png_bytes
    si,       \* main: position of s in sizes (1-based)
    size,     \* draw_icon: the argument
    y,        \* draw_icon: the loop variable of the outer loop
    pixels,   \* the pixel list: draw_icon's, main's, png_bytes' argument
    width,    \* png_bytes: arguments
    height,
    raw,      \* png_bytes: the scanline bytes so far
    row,      \* png_bytes: the loop variable y
    data,     \* the bytes png_bytes returned
    files,    \* the script directory: file name -> content
    out,      \* lines printed
    events,   \* history: the steps main has taken
    calls     \* history: the finished calls of png_bytes

vars == <<mpc, si, size, y, pixels, width, height, raw, row, data,
          files, out, events, calls>>

drawVars == <<size, y, pixels>>
encVars == <<width, height, raw, row, data, calls>>
mainVars == <<si, files, out, events>>

\* f'icon{s}.png'
iconName(s) == "icon" \o ToString(s) \o ".png"

NoFiles == [n \in {} |-> <<>>]

Init ==
    /\ mpc = "loop"
    /\ si = 1
    /\ size = 0 /\ y = 0 /\ pixels = <<>>
    /\ width = 0 /\ height = 0 /\ raw = <<>> /\ row = 0 /\ data = <<>>
    /\ files = NoFiles
    /\ out = <<>>
    /\ events = <<>>
    /\ calls = <<>>

\* ------------------------------------------------------------------------
\* draw_icon, loop by loop
\* ------------------------------------------------------------------------

\* one turn of the outer loop: the inner loop over x, each turn of it a
\* pixels.append(...)
DrawRow ==
    /\ mpc = "draw"
    /\ y < size
    /\ pixels' = pixels \o drawRow(size, y)
    /\ y' = y + 1
    /\ UNCHANGED <<mpc, size>>
    /\ UNCHANGED mainVars
    /\ UNCHANGED encVars

\* return pixels
DrawReturn ==
    /\ mpc = "draw"
    /\ y >= size
    /\ mpc' = "drawn"
    /\ UNCHANGED drawVars
    /\ UNCHANGED mainVars
    /\ UNCHANGED encVars

\* ------------------------------------------------------------------------
\* png_bytes, loop by loop
\* ------------------------------------------------------------------------

\* one turn of the outer loop: the filter byte and the pixels of row y, or
\* the IndexError of pixels[y * width + x], which nothing catches
EncRow ==
    /\ mpc = "encode"
    /\ row < height
    /\ IF rowIndexError(width, pixels, row)
       THEN /\ mpc' = "error"
            /\ calls' = Append(calls, [width |-> width, height |-> height,
                                       pixels |-> pixels, ok |-> FALSE,
                                       data |-> <<>>])
            /\ UNCHANGED <<raw, row>>
       ELSE /\ raw' = raw \o scanline(width, pixels, row)
            /\ row' = row + 1
            /\ UNCHANGED <<mpc, calls>>
    /\ UNCHANGED <<width, height, data>>
    /\ UNCHANGED drawVars
    /\ UNCHANGED mainVars

\* idat, iend and the return
EncReturn ==
    /\ mpc = "encode"
    /\ row >= height
    /\ data' = pngFile(width, height, raw)
    /\ calls' = Append(calls, [width |-> width, height |-> height,
                               pixels |-> pixels, ok |-> TRUE,
                               data |-> data'])
    /\ mpc' = "encoded"
    /\ UNCHANGED <<width, height, raw, row>>
    /\ UNCHANGED drawVars
    /\ UNCHANGED mainVars

\* ------------------------------------------------------------------------
\* main: each call of draw_icon and png_bytes is one step
\* ------------------------------------------------------------------------

\* pixels = draw_icon(s)
MainDraw ==
    /\ mpc = "loop"
    /\ si <= Len(sizes)
    /\ pixels' = draw_icon(sizes[si])
    /\ mpc' = "drawn"
    /\ events' = Append(events, <<"rasterize", sizes[si]>>)
    /\ UNCHANGED <<size, y>>
    /\ UNCHANGED <<si, files, out>>
    /\ UNCHANGED encVars

\* data = png_bytes(s, s, pixels); an IndexError would leave main
MainEncode ==
    /\ mpc = "drawn"
    /\ IF pngIndexError(sizes[si], sizes[si], pixels)
       THEN /\ mpc' = "error"
            /\ UNCHANGED data
       ELSE /\ data' = png_bytes(sizes[si], sizes[si], pixels)
            /\ mpc' = "encoded"
    /\ events' = Append(events, <<"encode", sizes[si]>>)
    /\ UNCHANGED <<width, height, raw, row, calls>>
    /\ UNCHANGED <<si, files, out>>
    /\ UNCHANGED drawVars

\* with open(path, 'wb') as f: f.write(data), succeeding
WriteOk ==
    /\ mpc = "encoded"
    /\ files' = [n \in DOMAIN files \cup {iconName(sizes[si])} |->
                    IF n = iconName(sizes[si]) THEN data ELSE files[n]]
    /\ mpc' = "written"
    /\ events' = Append(events, <<"write", sizes[si]>>)
    /\ UNCHANGED <<si, out>>
    /\ UNCHANGED drawVars
    /\ UNCHANGED encVars

\* variant: the error is swallowed and the loop goes on
OpenFail_swallowed ==
    /\ mpc = "encoded"
    /\ mpc' = "loop"
    /\ si' = si + 1
    /\ events' = Append(events, <<"fail", sizes[si]>>)
    /\ UNCHANGED <<files, out>>
    /\ UNCHANGED drawVars
    /\ UNCHANGED encVars

\* open() raises: the directory is as it was
OpenFail ==
    /\ mpc = "encoded"
    /\ mpc' = "failed"
    /\ events' = Append(events, <<"fail", sizes[si]>>)
    /\ UNCHANGED <<si, files, out>>
    /\ UNCHANGED drawVars
    /\ UNCHANGED encVars

\* f.write() raises after open() truncated or created the file
WriteFail ==
    /\ mpc = "encoded"
    /\ \E k \in 0..(WriteParts - 1) :
          files' = [m \in DOMAIN files \cup {iconName(sizes[si])} |->
                       IF m = iconName(sizes[si])
                       THEN SubSeq(data, 1, (Len(data) * k) \div WriteParts)
                       ELSE files[m]]
    /\ mpc' = "failed"
    /\ events' = Append(events, <<"fail", sizes[si]>>)
    /\ UNCHANGED <<si, out>>
    /\ UNCHANGED drawVars
    /\ UNCHANGED encVars

\* print(f'  Created {path}  ({s}x{s})') and the step to the next s
Report ==
    /\ mpc = "written"
    /\ out' = Append(out, <<"Created", iconName(sizes[si]), sizes[si], sizes[si]>>)
    /\ events' = Append(events, <<"report", sizes[si]>>)
    /\ si' = si + 1
    /\ mpc' = "loop"
    /\ UNCHANGED files
    /\ UNCHANGED drawVars
    /\ UNCHANGED encVars

\* variant: the completion message one size early
Done_early ==
    /\ mpc = "loop"
    /\ si >= Len(sizes)
    /\ out' = Append(out, <<"Done.">>)
    /\ events' = Append(events, <<"done">>)
    /\ mpc' = "done"
    /\ UNCHANGED <<si, files>>
    /\ UNCHANGED drawVars
    /\ UNCHANGED encVars

\* print('Done.')
Done ==
    /\ mpc = "loop"
    /\ si > Len(sizes)
    /\ out' = Append(out, <<"Done.">>)
    /\ events' = Append(events, <<"done">>)
    /\ mpc' = "done"
    /\ UNCHANGED <<si, files>>
    /\ UNCHANGED drawVars
    /\ UNCHANGED encVars

Next ==
    \/ MainDraw \/ MainEncode
    \/ WriteOk \/ OpenFail \/ WriteFail
    \/ Report \/ Done

Spec == Init /\ [][Next]_vars

\* the scheduler: one thread that runs while it can
FairSpec == Spec /\ WF_vars(Next)

\* ------------------------------------------------------------------------
\* draw_icon on its own, for each size main passes
\* ------------------------------------------------------------------------

InitDraw ==
    /\ mpc = "draw"
    /\ si \in 1..Len(sizes)
    /\ size = sizes[si]
    /\ y = 0 /\ pixels = <<>>
    /\ width = 0 /\ height = 0 /\ raw = <<>> /\ row = 0 /\ data = <<>>
    /\ files = NoFiles
    /\ out = <<>>
    /\ events = <<>>
    /\ calls = <<>>

NextDraw == DrawRow \/ DrawReturn

SpecDraw == InitDraw /\ [][NextDraw]_vars

\* ------------------------------------------------------------------------
\* png_bytes on its own, for any width, height and buffer within the bounds
\* ------------------------------------------------------------------------

InitEnc ==
    /\ mpc = "encode"
    /\ si = 1
    /\ size = 0 /\ y = 0
    /\ pixels \in Buffers
    /\ width \in 0..MaxW
    /\ height \in 0..MaxH
    /\ raw = <<>> /\ row = 0 /\ data = <<>>
    /\ files = NoFiles
    /\ out = <<>>
    /\ events = <<>>
    /\ calls = <<>>

NextEnc == EncRow \/ EncReturn

SpecEnc == InitEnc /\ [][NextEnc]_vars

\* the caller is one thread that runs while it can
FairSpecEnc == SpecEnc /\ WF_vars(NextEnc)

\* ------------------------------------------------------------------------
\* two calls of png_bytes in a row
\* ------------------------------------------------------------------------

\* variant: raw outlives the call (a module-level buffer that is not reset)
EncCallAgain_keep ==
    /\ mpc \in {"encoded", "error"}
    /\ Len(calls) = 1
    /\ pixels' \in DetBuffers
    /\ width' \in 0..MaxW
    /\ height' \in 0..MaxH
    /\ row' = 0
    /\ mpc' = "encode"
    /\ UNCHANGED <<raw, data, calls>>
    /\ UNCHANGED <<size, y>>
    /\ UNCHANGED mainVars

\* the second call: fresh arguments, raw = b'' and the loop from row 0
EncCallAgain ==
    /\ mpc \in {"encoded", "error"}
    /\ Len(calls) = 1
    /\ pixels' \in DetBuffers
    /\ width' \in 0..MaxW
    /\ height' \in 0..MaxH
    /\ raw' = <<>>
    /\ row' = 0
    /\ mpc' = "encode"
    /\ UNCHANGED <<data, calls>>
    /\ UNCHANGED <<size, y>>
    /\ UNCHANGED mainVars

NextDet == EncRow \/ EncReturn \/ EncCallAgain

InitDet ==
    /\ mpc = "encode"
    /\ si = 1
    /\ size = 0 /\ y = 0
    /\ pixels \in DetBuffers
    /\ width \in 0..MaxW
    /\ height \in 0..MaxH
    /\ raw = <<>> /\ row = 0 /\ data = <<>>
    /\ files = NoFiles
    /\ out = <<>>
    /\ events = <<>>
    /\ calls = <<>>

SpecDet == InitDet /\ [][NextDet]_vars

\* ------------------------------------------------------------------------
\* Properties of draw_icon (checked under SpecDraw)
\* ------------------------------------------------------------------------

Byte == 0..255

\* the centre of pixel (px, py) is strictly outside the rounded boundary:
\* hypot(rx, ry) > corner_radius, the radius being 0.22 * size
strictlyOutside(s, px, py) ==
    LET ex(c) == Max2(Max2(220 * s - c, c - 780 * s), 0)
        rx == ex(1000 * px + 500)
        ry == ex(1000 * py + 500)
    IN  rx * rx + ry * ry > (220 * s) * (220 * s)

\* the centre of pixel (px, py) is at least half a pixel outside it
outsideByHalf(s, px, py) ==
    LET ex(c) == Max2(Max2(220 * s - c, c - 780 * s), 0)
        rx == ex(1000 * px + 500)
        ry == ex(1000 * py + 500)
    IN  rx * rx + ry * ry >= (220 * s + 500) * (220 * s + 500)

\* pixel (px, py) of the buffer, once row py is in it
pixelAt(px, py) == pixels[py * size + px + 1]

\* C3: draw_icon(S) returns exactly S * S pixels in row-major order (pixel
\* number y * S + x is the one computed for (x, y)), each a 4-tuple of
\* integers in 0..255; while the loops run the list holds the rows before y
\* in full.
C3_BufferShape ==
    /\ mpc = "draw" =>
          /\ Len(pixels) = y * size
          /\ \A i \in (Len(pixels) - size + 1)..Len(pixels) :
                i >= 1 => pixels[i] \in Byte \X Byte \X Byte \X Byte
    /\ mpc = "drawn" =>
          /\ Len(pixels) = size * size
          /\ \A i \in 1..Len(pixels) :
                /\ pixels[i] \in Byte \X Byte \X Byte \X Byte
                /\ pixels[i] = drawPixel(size, (i - 1) % size, (i - 1) \div size)
          /\ pixels = draw_icon(size)

C3_Witness == mpc = "drawn" /\ size = 128 /\ Len(pixels) = 16384

\* C7 as stated: every pixel whose centre is strictly outside the rounded
\* boundary has alpha 0.
C7_Original ==
    (mpc \in {"draw", "drawn"} /\ y >= 1) =>
        \A px \in 0..(size - 1) :
            strictlyOutside(size, px, y - 1) => pixelAt(px, y - 1)[4] = 0

\* C7 amended: every pixel whose centre is at least half a pixel outside the
\* rounded boundary is (0, 0, 0, 0), and so are the four extreme corner
\* pixels of the returned buffer.
C7_OutsideTransparent ==
    /\ (mpc \in {"draw", "drawn"} /\ y >= 1) =>
          \A px \in 0..(size - 1) :
              outsideByHalf(size, px, y - 1) => pixelAt(px, y - 1) = <<0, 0, 0, 0>>
    /\ mpc = "drawn" =>
          \A i \in {1, size, size * (size - 1) + 1, size * size} :
              pixels[i] = <<0, 0, 0, 0>>

\* the first row is in the buffer: it has a pixel outside by half a pixel or
\* more, next to one that is outside by less and not transparent
C7_Witness ==
    /\ mpc = "draw" /\ y = 1
    /\ \E px \in 1..(size - 1) :
          /\ outsideByHalf(size, px - 1, 0)
          /\ strictlyOutside(size, px, 0) /\ ~outsideByHalf(size, px, 0)
          /\ pixelAt(px, 0)[4] > 0

\* the centre pixels of an S x S icon
CentreCoords(s) == {s \div 2 - 1, s \div 2}

\* the centre of (px, py) is inside bar i by at least m thousandths on every
\* side (m < 0: outside by less than -m)
insideBarBy(s, i, px, py, m) ==
    LET cx == 1000 * px + 500
        cy == 1000 * py + 500
        top == 280 * s + i * 245 * s
        wd == IF i = 2 THEN 364 * s ELSE 560 * s
    IN  /\ cy - top >= m /\ top + 130 * s - cy >= m
        /\ cx - 220 * s >= m /\ 220 * s + wd - cx >= m

\* no feathering: the centre is 0.4 px or more inside some bar
fullyCovered(s, px, py) == \E i \in 0..2 : insideBarBy(s, i, px, py, 400)

\* the centre is 0.4 px or more outside every bar
notCovered(s, px, py) == \A i \in 0..2 : ~insideBarBy(s, i, px, py, -399)

\* C8 as stated: each centre pixel has alpha 255 and is pure white or
\* exactly the background colour.
C8_Original ==
    mpc = "drawn" =>
        \A px \in CentreCoords(size), py \in CentreCoords(size) :
            LET p == pixelAt(px, py)
            IN  /\ p[4] = 255
                /\ \/ <<p[1], p[2], p[3]>> = <<255, 255, 255>>
                   \/ <<p[1], p[2], p[3]>> = <<26, 115, 232>>

\* C8 amended: each centre pixel has alpha 255; it is pure white where a bar
\* covers it fully, exactly the background colour where no bar touches it,
\* and where its centre lies in the feather band of a bar edge every channel
\* is strictly between the background's and white.
C8_CentreBlend ==
    mpc = "drawn" =>
        \A px \in CentreCoords(size), py \in CentreCoords(size) :
            LET p == pixelAt(px, py)
            IN  /\ p[4] = 255
                /\ fullyCovered(size, px, py) =>
                      <<p[1], p[2], p[3]>> = <<255, 255, 255>>
                /\ notCovered(size, px, py) =>
                      <<p[1], p[2], p[3]>> = <<26, 115, 232>>
                /\ (~fullyCovered(size, px, py) /\ ~notCovered(size, px, py)) =>
                      /\ 26 < p[1] /\ p[1] < 255
                      /\ 115 < p[2] /\ p[2] < 255
                      /\ 232 < p[3] /\ p[3] < 255

\* a returned buffer with a feathered centre pixel and an untouched one
C8_Witness ==
    /\ mpc = "drawn"
    /\ \E px \in CentreCoords(size), py \in CentreCoords(size) :
          ~fullyCovered(size, px, py) /\ ~notCovered(size, px, py)
    /\ \E px \in CentreCoords(size), py \in CentreCoords(size) :
          notCovered(size, px, py)

\* ------------------------------------------------------------------------
\* A PNG decoder for the images png_bytes can produce: 8-bit RGBA, filter
\* type 0 on every scanline, one IDAT chunk, stored deflate blocks
\* ------------------------------------------------------------------------

Bad == [ok |-> FALSE, width |-> 0, height |-> 0, pixels |-> <<>>]

\* the data of the stored blocks of z from position pos on, and the position
\* after the final block; <<>> and 0 if the blocks are malformed
RECURSIVE inflateBlocks(_, _)
inflateBlocks(z, pos) ==
    IF pos + 4 > Len(z) \/ z[pos] \notin {0, 1} THEN <<<<>>, 0>>
    ELSE LET n == z[pos + 1] + 256 * z[pos + 2]
             c == z[pos + 3] + 256 * z[pos + 4]
         IN  IF n + c # 65535 \/ pos + 4 + n > Len(z) THEN <<<<>>, 0>>
             ELSE IF z[pos] = 1 THEN <<SubSeq(z, pos + 5, pos + 4 + n), pos + 5 + n>>
             ELSE LET rest == inflateBlocks(z, pos + 5 + n)
                  IN  IF rest[2] = 0 THEN rest
                      ELSE <<SubSeq(z, pos + 5, pos + 4 + n) \o rest[1], rest[2]>>

\* zlib.decompress: <<TRUE, bytes>>, or <<FALSE, <<>>>> for a malformed stream
inflate(z) ==
    IF Len(z) < 6 \/ z[1] % 16 # 8 \/ (z[1] * 256 + z[2]) % 31 # 0
    THEN <<FALSE, <<>>>>
    ELSE LET r == inflateBlocks(z, 3)
         IN  IF r[2] = 0 \/ r[2] + 3 # Len(z) THEN <<FALSE, <<>>>>
             ELSE IF SubSeq(z, r[2], r[2] + 3) # adler32(r[1]) THEN <<FALSE, <<>>>>
             ELSE <<TRUE, r[1]>>

\* the chunk of f at position pos: length field, tag, payload, CRC field
chunkAt(f, pos) ==
    LET n == unpackI(SubSeq(f, pos, pos + 3))
    IN  [len |-> n,
         tag |-> SubSeq(f, pos + 4, pos + 7),
         payload |-> SubSeq(f, pos + 8, pos + 7 + n),
         crc |-> SubSeq(f, pos + 8 + n, pos + 11 + n),
         next |-> pos + 12 + n]

\* f is the signature and three chunks IHDR, IDAT, IEND, each well framed
wellFramed(f) ==
    /\ Len(f) >= 8 + 25 + 12 + 12
    /\ SubSeq(f, 1, 8) = <<137, 80, 78, 71, 13, 10, 26, 10>>
    /\ LET c1 == chunkAt(f, 9)
       IN  /\ c1.len = 13
           /\ c1.tag = <<73, 72, 68, 82>>
           /\ c1.crc = crc32(c1.tag \o c1.payload)
           /\ c1.next + 11 <= Len(f)
           /\ LET c2 == chunkAt(f, c1.next)
              IN  /\ c2.tag = <<73, 68, 65, 84>>
                  /\ c2.next + 11 = Len(f)
                  /\ c2.crc = crc32(c2.tag \o c2.payload)
                  /\ LET c3 == chunkAt(f, c2.next)
                     IN  /\ c3.len = 0
                         /\ c3.tag = <<73, 69, 78, 68>>
                         /\ c3.crc = crc32(c3.tag)

\* the image in f
pngDecode(f) ==
    IF ~wellFramed(f) THEN Bad
    ELSE LET h == chunkAt(f, 9).payload
             w == unpackI(SubSeq(h, 1, 4))
             ht == unpackI(SubSeq(h, 5, 8))
             z == inflate(chunkAt(f, 34).payload)
             stride == 1 + 4 * w
         IN  IF SubSeq(h, 9, 13) # <<8, 6, 0, 0, 0>> \/ ~z[1] THEN Bad
             ELSE IF Len(z[2]) # ht * stride THEN Bad
             ELSE IF \E r \in 0..(ht - 1) : z[2][r * stride + 1] # 0 THEN Bad
             ELSE [ok |-> TRUE, width |-> w, height |-> ht,
                   pixels |-> [i \in 1..(w * ht) |->
                       LET o == ((i - 1) \div w) * stride + 1 + 4 * ((i - 1) % w)
                       IN  <<z[2][o + 1], z[2][o + 2], z[2][o + 3], z[2][o + 4]>>]]

\* ------------------------------------------------------------------------
\* Properties of png_bytes (checked under SpecEnc, FairSpecEnc, SpecDet)
\* ------------------------------------------------------------------------

\* C4: for a buffer of width * height pixels, decoding the bytes png_bytes
\* returned gives back the width, the height and the buffer.
C4_RoundTrip ==
    (mpc = "encoded" /\ Len(pixels) = width * height) =>
        pngDecode(data) = [ok |-> TRUE, width |-> width, height |-> height,
                           pixels |-> pixels]

\* a 2 x 2 image with pixels of both values was encoded
C4_Witness ==
    /\ mpc = "encoded" /\ width = 2 /\ height = 2 /\ Len(pixels) = 4
    /\ pixels[1] # pixels[2] /\ pixels[1] # pixels[3]

\* C5: the returned bytes are the signature, then the chunks IHDR, IDAT and
\* IEND and nothing else; each chunk is its payload's length in four
\* big-endian bytes, the tag, the payload and the CRC-32 of tag + payload;
\* the IHDR payload is the 13 bytes width, height, 8, 6, 0, 0, 0 and the
\* IEND payload is empty.
C5_Framing ==
    mpc = "encoded" =>
        /\ wellFramed(data)
        /\ chunkAt(data, 9).payload =
              <<0, 0, 0, width, 0, 0, 0, height, 8, 6, 0, 0, 0>>
        /\ chunkAt(data, 34).len = Len(data) - 8 - 25 - 12 - 12
        /\ Len(chunkAt(data, 34).payload) = chunkAt(data, 34).len

C5_Witness == mpc = "encoded" /\ width = 2 /\ height = 1 /\ Len(raw) = 9

\* C6: two finished calls of png_bytes with the same width, height and
\* buffer ended alike: both failed, or both returned the same bytes.
C6_Deterministic ==
    \A i, j \in 1..Len(calls) :
        (/\ calls[i].width = calls[j].width
         /\ calls[i].height = calls[j].height
         /\ calls[i].pixels = calls[j].pixels)
            => (calls[i].ok = calls[j].ok /\ calls[i].data = calls[j].data)

\* a second call with the arguments of the first returned, after a first
\* call that left bytes in raw
C6_Witness ==
    /\ Len(calls) = 2
    /\ calls[1].width = calls[2].width
    /\ calls[1].height = calls[2].height
    /\ calls[1].pixels = calls[2].pixels
    /\ calls[2].ok /\ calls[2].height = 2 /\ calls[2].width = 2

\* the scanline bytes of rows r..height-1 of a buffer that has them all
RECURSIVE scanlinesFrom(_, _, _, _)
scanlinesFrom(w, h, px, r) ==
    IF r >= h THEN <<>>
    ELSE scanline(w, px, r) \o scanlinesFrom(w, h, px, r + 1)

\* C10: png_bytes never changes the buffer; it ends in an unhandled error,
\* having returned nothing, exactly when the buffer has fewer than
\* width * height pixels; otherwise it returns, and what it returns is what
\* it returns for the first width * height pixels alone.
C10_Safety ==
    /\ mpc = "error" =>
          /\ Len(pixels) < width * height /\ data = <<>>
          /\ pngIndexError(width, height, pixels)
    /\ mpc = "encoded" =>
          /\ Len(pixels) >= width * height
          /\ ~pngIndexError(width, height, pixels)
          /\ data = png_bytes(width, height, pixels)
          /\ data = pngFile(width, height,
                       scanlinesFrom(width, height,
                                     SubSeq(pixels, 1, width * height), 0))

C10_LengthMismatch ==
    /\ []C10_Safety
    /\ [][pixels' = pixels]_vars
    /\ <>(mpc \in {"error", "encoded"})

\* a call with one pixel too many returned
C10_Witness ==
    mpc = "encoded" /\ width = 1 /\ height = 2 /\ Len(pixels) = 3

\* a call with one pixel too few failed in its second row
C10_WitnessShort ==
    mpc = "error" /\ width = 2 /\ height = 2 /\ Len(pixels) = 3 /\ row = 1

\* ------------------------------------------------------------------------
\* Properties of main (checked under Spec)
\* ------------------------------------------------------------------------

\* the file begins with the PNG signature and an IHDR chunk that declares an
\* s x s image of bit depth 8 and colour type 6
headerDeclares(f, s) ==
    /\ Len(f) >= 26
    /\ SubSeq(f, 1, 8) = <<137, 80, 78, 71, 13, 10, 26, 10>>
    /\ SubSeq(f, 9, 16) = <<0, 0, 0, 13, 73, 72, 68, 82>>
    /\ SubSeq(f, 17, 20) = <<0, 0, 0, s>>
    /\ SubSeq(f, 21, 24) = <<0, 0, 0, s>>
    /\ f[25] = 8 /\ f[26] = 6

\* while no write has failed, every file in the directory is one of the four
\* and has the header of its size; when main has finished, the directory
\* holds exactly the four
C1_FilesOk ==
    LET named == [n \in {"icon16.png", "icon32.png", "icon48.png", "icon128.png"} |->
                    CASE n = "icon16.png" -> 16 [] n = "icon32.png" -> 32
                      [] n = "icon48.png" -> 48 [] n = "icon128.png" -> 128]
    IN  /\ mpc # "failed" =>
              \A n \in DOMAIN files :
                  n \in DOMAIN named /\ headerDeclares(files[n], named[n])
        /\ mpc = "done" => DOMAIN files = DOMAIN named

\* C1: a run of main ends, finished or failed at a write; while no write has
\* failed, every file in the directory is one of icon16.png, icon32.png,
\* icon48.png, icon128.png and begins with the PNG signature and an IHDR
\* declaring width = height = the size in its name, bit depth 8, colour
\* type 6; when main has finished, the directory holds exactly these four.
C1_FourFiles == []C1_FilesOk /\ <>(mpc \in {"done", "failed"})

C1_Witness == mpc = "done" /\ Cardinality(DOMAIN files) = 4

\* the events of a run in which nothing fails
FullTrace ==
    << <<"rasterize", 16>>, <<"encode", 16>>, <<"write", 16>>, <<"report", 16>>,
       <<"rasterize", 32>>, <<"encode", 32>>, <<"write", 32>>, <<"report", 32>>,
       <<"rasterize", 48>>, <<"encode", 48>>, <<"write", 48>>, <<"report", 48>>,
       <<"rasterize", 128>>, <<"encode", 128>>, <<"write", 128>>, <<"report", 128>>,
       <<"done">> >>

IsPrefix(p, q) == Len(p) <= Len(q) /\ p = SubSeq(q, 1, Len(p))

isFail(e) == e[1] = "fail"
notFail(e) == e[1] # "fail"

\* the names of the files written in full so far
writtenNames ==
    IF mpc = "failed" THEN DOMAIN files \ {iconName(sizes[si])} ELSE DOMAIN files

NamePrefixes ==
    { {}, {"icon16.png"}, {"icon16.png", "icon32.png"},
      {"icon16.png", "icon32.png", "icon48.png"},
      {"icon16.png", "icon32.png", "icon48.png", "icon128.png"} }

\* C2: a failed open or write ends the run at once: it is the last event,
\* the failed size has no write and no report, no later size has any event,
\* 'Done.' is not printed and nothing happens afterwards; a run that ends
\* without a failure has written all four files and printed 'Done.' last;
\* the rasterizer and the encoder never fail.
C2_StateOk ==
    /\ mpc # "error"
    /\ (mpc = "failed") = (\E k \in 1..Len(events) : isFail(events[k]))
    /\ mpc = "failed" =>
          /\ events[Len(events)] = <<"fail", sizes[si]>>
          /\ events[Len(events) - 1] = <<"encode", sizes[si]>>
          /\ IsPrefix(SubSeq(events, 1, Len(events) - 1), FullTrace)
          /\ Len(SelectSeq(events, isFail)) = 1
          /\ \A k \in 1..Len(out) :
                out[k] # <<"Done.">> /\ out[k][2] # iconName(sizes[si])
          /\ \A j \in (si + 1)..Len(sizes) : iconName(sizes[j]) \notin DOMAIN files
    /\ mpc = "done" =>
          /\ events = FullTrace
          /\ DOMAIN files = {"icon16.png", "icon32.png", "icon48.png", "icon128.png"}
          /\ Len(out) = 5 /\ out[5] = <<"Done.">>

C2_FailFast == []C2_StateOk /\ [][mpc # "failed"]_vars

\* the write of the third size failed after two sizes were written
C2_Witness ==
    /\ mpc = "failed" /\ si = 3
    /\ DOMAIN files = {"icon16.png", "icon32.png"}
    /\ Len(out) = 2

\* C9: the events of a run, a final failed write left out, are a prefix of
\* rasterize(16), encode(16), write(icon16.png), report(16), ..., report(128),
\* completion; the lines printed are those of the report and completion
\* events; the files written in full so far are a prefix of icon16.png,
\* icon32.png, icon48.png, icon128.png, one for each write event.
C9_Ordered ==
    /\ IsPrefix(SelectSeq(events, notFail), FullTrace)
    /\ Len(out) = Len(SelectSeq(events, LAMBDA e : e[1] \in {"report", "done"}))
    /\ writtenNames \in NamePrefixes
    /\ Cardinality(writtenNames) = Len(SelectSeq(events, LAMBDA e : e[1] = "write"))

\* the third size has been written and not yet reported
C9_Witness ==
    /\ mpc = "written" /\ si = 3
    /\ events[Len(events)] = <<"write", 48>>
    /\ Len(out) = 2
====
